---- MODULE Spec2Model ----
(***************************************************************************)
(* Model of the property decoding pipeline of msg-parser-rs:               *)
(*   src/src/parser/decode.rs  PtypDecoder and the four decode_* functions *)
(*   src/src/parser/stream.rs  Stream::create and its name parsing         *)
(*   src/src/lib.rs            jsonFromUint8Array                          *)
(*                                                                         *)
(* Representation.  A byte is a number 0..255 and a byte buffer a sequence *)
(* of bytes.  A name, key or type tag (Rust &str) is a sequence of         *)
(* one-character strings.  Decoded text (the String inside a DataType) is  *)
(* a sequence of Unicode code points.  A u64 / f64 integer value is a      *)
(* sequence of bits, most significant first, because the values exceed the *)
(* range of the model checker's integers.                                  *)
(***************************************************************************)
EXTENDS Integers, Sequences, FiniteSets, TLC

VARIABLES pc, op, name, entry, code, prop_map, parent, slice, result,
          container, overflow_checks

vars == <<pc, op, name, entry, code, prop_map, parent, slice, result,
          container, overflow_checks>>

(***************************************************************************)
(* Bounds of the model.                                                    *)
(***************************************************************************)
\* longest byte buffer handed to PtypDecoder directly
MaxBuffLen == 4
\* longest entry content handed to Stream::create (besides the Time samples)
MaxEntryLen == 2
\* longest free-form text that follows "__substg1.0" in a malformed name
MaxSuffixLen == 3
\* most stream entries in a container handed to jsonFromUint8Array
MaxEntries == 2

(***************************************************************************)
(* Generic helpers.                                                        *)
(***************************************************************************)
Min(a, b) == IF a <= b THEN a ELSE b

Last(s) == s[Len(s)]

Drop(s, n) == SubSeq(s, n + 1, Len(s))

Zeros(n) == [i \in 1..n |-> 0]

\* all sequences over S of length at most n
SeqsUpTo(S, n) == UNION {[1..k -> S] : k \in 0..n}

(***************************************************************************)
(* DataType, and the outcome of a decode.  Every payload is a sequence of  *)
(* numbers: the bytes of a PtypBinary, the code points of a text.          *)
(***************************************************************************)
PtypBinary(bytes) == [type |-> "PtypBinary", val |-> bytes]

PtypString(text) == [type |-> "PtypString", val |-> text]

PtypString8(text) == [type |-> "PtypString8", val |-> text]

PtypTime(text) == [type |-> "PtypTime", val |-> text]

\* Result<DataType, Error>, or the panic that unwinds out of the call
Ok(v) == [kind |-> "Ok", value |-> v]

Err(e, c) == [kind |-> "Err", err |-> e, code |-> c]

Panic == [kind |-> "Panic"]

(***************************************************************************)
(* Unsigned integers as bit sequences, most significant bit first.         *)
(***************************************************************************)
\* without leading zeros; the value 0 is the empty sequence
Norm(b) ==
  IF \A i \in 1..Len(b) : b[i] = 0 THEN <<>>
  ELSE LET first == CHOOSE i \in 1..Len(b) :
                      b[i] = 1 /\ \A j \in 1..(i - 1) : b[j] = 0
       IN  SubSeq(b, first, Len(b))

PadTo(b, w) == Zeros(w - Len(b)) \o b

RECURSIVE ByteBitsRec(_, _)
ByteBitsRec(v, n) == IF n = 0 THEN <<>>
                     ELSE Append(ByteBitsRec(v \div 2, n - 1), v % 2)

ByteBits(v) == ByteBitsRec(v, 8)

RECURSIVE DivRemRec(_, _, _)
\* long division by a small number d, most significant bit first, entered
\* with the remainder r of the bits already divided; the sequence is halved
\* to keep the recursion shallow
DivRemRec(b, d, r) ==
  IF b = <<>> THEN [q |-> <<>>, r |-> r]
  ELSE IF Len(b) = 1
       THEN LET t == 2 * r + b[1]
            IN  [q |-> <<IF t >= d THEN 1 ELSE 0>>, r |-> t % d]
  ELSE LET h == Len(b) \div 2
           hi == DivRemRec(SubSeq(b, 1, h), d, r)
           lo == DivRemRec(Drop(b, h), d, hi.r)
       IN  [q |-> hi.q \o lo.q, r |-> lo.r]

\* quotient (as wide as b) and remainder of b divided by d
DivRem(b, d) == DivRemRec(b, d, 0)

RECURSIVE NatBits(_)
NatBits(n) == IF n = 0 THEN <<>> ELSE Append(NatBits(n \div 2), n % 2)

Reverse(s) == [i \in 1..Len(s) |-> s[Len(s) + 1 - i]]

RECURSIVE MulAddRec(_, _, _)
\* b * m + carry on the width of b, for b given least significant bit
\* first, with the carry out
MulAddRec(b, m, carry) ==
  IF b = <<>> THEN [s |-> <<>>, c |-> carry]
  ELSE IF Len(b) = 1
       THEN LET t == b[1] * m + carry
            IN  [s |-> <<t % 2>>, c |-> t \div 2]
  ELSE LET h == Len(b) \div 2
           lo == MulAddRec(SubSeq(b, 1, h), m, carry)
           hi == MulAddRec(Drop(b, h), m, lo.c)
       IN  [s |-> lo.s \o hi.s, c |-> hi.c]

\* b * m + a
MulAdd(b, m, a) ==
  LET p == MulAddRec(Reverse(b), m, a)
  IN  Norm(NatBits(p.c) \o Reverse(p.s))

RECURSIVE SubRec(_, _, _)
\* a - b - borrow on equal widths, for a and b given least significant bit
\* first, with the borrow out
SubRec(a, b, borrow) ==
  IF a = <<>> THEN [s |-> <<>>, c |-> borrow]
  ELSE IF Len(a) = 1
       THEN LET t == a[1] - b[1] - borrow
            IN  [s |-> <<t % 2>>, c |-> IF t < 0 THEN 1 ELSE 0]
  ELSE LET h == Len(a) \div 2
           lo == SubRec(SubSeq(a, 1, h), SubSeq(b, 1, h), borrow)
           hi == SubRec(Drop(a, h), Drop(b, h), lo.c)
       IN  [s |-> lo.s \o hi.s, c |-> hi.c]

\* a - b modulo 2^w
WrappingSub(a, b, w) ==
  Reverse(SubRec(Reverse(PadTo(a, w)), Reverse(PadTo(b, w)), 0).s)

BitLess(a, b) ==
  LET w == IF Len(a) >= Len(b) THEN Len(a) ELSE Len(b)
      x == PadTo(a, w)
      y == PadTo(b, w)
  IN  \E i \in 1..w : x[i] < y[i] /\ \A j \in 1..(i - 1) : x[j] = y[j]

BitInc(b) == MulAdd(b, 1, 1)

RECURSIVE DecDigits(_)
DecDigits(b) == IF Norm(b) = <<>> THEN <<>>
                ELSE LET dr == DivRem(Norm(b), 10)
                     IN  Append(DecDigits(dr.q), 48 + dr.r)

\* u64::to_string: the decimal text, as code points
u64_to_string(b) == IF Norm(b) = <<>> THEN <<48>> ELSE DecDigits(b)

(***************************************************************************)
(* decode.rs: the four decoders.                                           *)
(***************************************************************************)
\* the type tags matched by PtypDecoder
TagString == <<"0", "x", "0", "0", "1", "F">>

TagString8 == <<"0", "x", "0", "0", "1", "E">>

TagBinary == <<"0", "x", "0", "1", "0", "2">>

TagTime == <<"0", "x", "0", "0", "4", "0">>

\* mutant: the trailing zero bytes of the content dropped
decode_ptypbinary_trim(buff) ==
  IF \A i \in 1..Len(buff) : buff[i] = 0 THEN Ok(PtypBinary(<<>>))
  ELSE Ok(PtypBinary(SubSeq(buff, 1,
         CHOOSE k \in 1..Len(buff) :
           buff[k] # 0 /\ \A j \in (k + 1)..Len(buff) : buff[j] = 0)))

decode_ptypbinary(buff) == Ok(PtypBinary(buff))

RECURSIVE ptypstring_units(_)
\* the loop of decode_ptypstring: the u16 code units pushed to buffu16
ptypstring_units(buff) ==
  IF buff = <<>> THEN <<>>
  ELSE IF buff[1] = 0 THEN <<>>
  ELSE IF Len(buff) = 1 THEN <<buff[1]>>
  ELSE <<buff[1] + 256 * buff[2]>> \o ptypstring_units(Drop(buff, 2))

IsHighSurrogate(u) == 55296 <= u /\ u <= 56319

IsLowSurrogate(u) == 56320 <= u /\ u <= 57343

RECURSIVE from_utf16(_)
\* String::from_utf16: the code points, or <<-1>> for an unpaired surrogate
from_utf16(u) ==
  IF u = <<>> THEN <<>>
  ELSE IF IsHighSurrogate(u[1])
       THEN IF Len(u) >= 2 /\ IsLowSurrogate(u[2])
            THEN LET rest == from_utf16(Drop(u, 2))
                 IN  IF rest = <<-1>> THEN rest
                     ELSE <<65536 + (u[1] - 55296) * 1024 + (u[2] - 56320)>>
                          \o rest
            ELSE <<-1>>
       ELSE IF IsLowSurrogate(u[1]) THEN <<-1>>
       ELSE LET rest == from_utf16(Tail(u))
            IN  IF rest = <<-1>> THEN rest ELSE <<u[1]>> \o rest

decode_ptypstring(buff) ==
  LET decoded == from_utf16(ptypstring_units(buff))
  IN  IF decoded = <<-1>> THEN Err("Utf16Err", <<>>)
      ELSE Ok(PtypString(decoded))

RECURSIVE ptypstring8_chars(_)
\* the loop of decode_ptypstring8: each byte before the first zero as a char
ptypstring8_chars(buff) ==
  IF buff = <<>> THEN <<>>
  ELSE IF buff[1] = 0 THEN <<>>
  ELSE <<buff[1]>> \o ptypstring8_chars(Tail(buff))

\* mutant: bytes above 0x7F replaced by U+FFFD, as a lossy UTF-8 decode of
\* a lone byte does
decode_ptypstring8_lossy(buff) ==
  LET chars == ptypstring8_chars(buff)
  IN  Ok(PtypString8([i \in 1..Len(chars) |->
                        IF chars[i] > 127 THEN 65533 ELSE chars[i]]))

decode_ptypstring8(buff) == Ok(PtypString8(ptypstring8_chars(buff)))

\* u64::from_le_bytes of an 8-byte array
u64_from_le_bytes(bytes) ==
  ByteBits(bytes[8]) \o ByteBits(bytes[7]) \o ByteBits(bytes[6])
    \o ByteBits(bytes[5]) \o ByteBits(bytes[4]) \o ByteBits(bytes[3])
    \o ByteBits(bytes[2]) \o ByteBits(bytes[1])

\* round-to-nearest, ties-to-even, of the integer m with a discarded part
RoundNearestEven(m, up, tie) ==
  IF up \/ (tie /\ m # <<>> /\ Last(m) = 1) THEN BitInc(m) ELSE m

\* `v as f64`: the nearest value with a 53-bit significand (an integer here)
u64_as_f64(v) ==
  LET x == Norm(v)
      n == Len(x)
  IN  IF n <= 53 THEN x
      ELSE LET keep == SubSeq(x, 1, 53)
               rest == SubSeq(x, 54, n)
               sticky == \E i \in 2..Len(rest) : rest[i] = 1
               m == RoundNearestEven(keep, rest[1] = 1 /\ sticky,
                                     rest[1] = 1 /\ ~sticky)
           IN  m \o Zeros(n - 53)

\* `(x / d) as u64` for an integral f64 x and a small d: the correctly
\* rounded 53-bit quotient, truncated toward zero (and saturated at 2^64-1)
f64_div_as_u64(x, d) ==
  LET q0 == Norm(DivRem(x, d).q)
      f == 53 - Len(q0)
      dr == DivRem(x \o Zeros(f), d)
      m == RoundNearestEven(Norm(dr.q), 2 * dr.r > d, 2 * dr.r = d)
      t == SubSeq(m, 1, Len(m) - f)
  IN  IF q0 = <<>> THEN <<>>
      ELSE IF Len(t) > 64 THEN [i \in 1..64 |-> 1]
      ELSE t

\* 11644473599996 = DIFF_BETWEEN_EPOCHS_1970_1601, as 1164447 * 10^7 + 3599996
EpochDiff == MulAdd(NatBits(1164447), 10000000, 3599996)

\* buff[0..8] panics on a short buffer; the u64 subtraction panics when the
\* build checks overflow and wraps otherwise
decode_ptyptime(buff, checked) ==
  IF Len(buff) < 8 THEN Panic
  ELSE LET bytes == SubSeq(buff, 1, 8)
           ms == f64_div_as_u64(u64_as_f64(u64_from_le_bytes(bytes)), 10000)
       IN  IF BitLess(ms, EpochDiff) /\ checked THEN Panic
           ELSE Ok(PtypTime(u64_to_string(
                  WrappingSub(ms, EpochDiff, 64))))

\* mutant: the hex digits of the tag matched without regard to case
decode_match_nocase(buff, c, checked) ==
  IF c \in {TagString, <<"0", "x", "0", "0", "1", "f">>}
  THEN decode_ptypstring(buff)
  ELSE IF c \in {TagString8, <<"0", "x", "0", "0", "1", "e">>}
  THEN decode_ptypstring8(buff)
  ELSE IF c = TagBinary THEN decode_ptypbinary(buff)
  ELSE IF c = TagTime THEN decode_ptyptime(buff, checked)
  ELSE Err("UnknownCode", c)

\* the match on the type tag, shared by decode and decode_vec
decode_match(buff, c, checked) ==
  IF c = TagString THEN decode_ptypstring(buff)
  ELSE IF c = TagString8 THEN decode_ptypstring8(buff)
  ELSE IF c = TagBinary THEN decode_ptypbinary(buff)
  ELSE IF c = TagTime THEN decode_ptyptime(buff, checked)
  ELSE Err("UnknownCode", c)

PtypDecoder_decode_vec(buff, c, checked) == decode_match(buff, c, checked)

(***************************************************************************)
(* EntrySlice (crate::ole): a sequential reader over one entry's bytes.    *)
(***************************************************************************)
EntrySlice(bytes) == [data |-> bytes, read |-> 0]

\* the remaining length
EntrySlice_len(s) == Len(s.data) - s.read

\* read into a buffer of n bytes: only the remaining bytes are returned
EntrySlice_read(s, n) ==
  LET k == Min(n, Len(s.data) - s.read)
  IN  [bytes |-> SubSeq(s.data, s.read + 1, s.read + k),
       slice |-> [s EXCEPT !.read = @ + k]]

\* PtypDecoder::decode: the outcome and the slice after the read
PtypDecoder_decode(s, c, checked) ==
  LET n == EntrySlice_len(s)
      rd == EntrySlice_read(s, n)
      buff == rd.bytes \o Zeros(n - Len(rd.bytes))
  IN  [res |-> decode_match(buff, c, checked), slice |-> rd.slice]

(***************************************************************************)
(* stream.rs: Stream::create and its helpers.                              *)
(***************************************************************************)
\* a character outside ASCII, two bytes long in UTF-8 (U+00E9)
TwoByteChar == "U+00E9"

\* the UTF-8 length of a character
Utf8Len(c) == IF c = TwoByteChar THEN 2 ELSE 1

RECURSIVE StrLen(_)
\* str::len: the length in bytes
StrLen(t) == IF t = <<>> THEN 0 ELSE Utf8Len(t[1]) + StrLen(Tail(t))

\* whether byte offset n of t lies on a character boundary
IsCharBoundary(t, n) == \E k \in 0..Len(t) : StrLen(SubSeq(t, 1, k)) = n

\* the number of characters before byte offset n, a character boundary
CharsBefore(t, n) == CHOOSE k \in 0..Len(t) : StrLen(SubSeq(t, 1, k)) = n

RECURSIVE Split(_)
\* str::split("_"): the pieces between underscores, empty ones included
Split(t) ==
  IF t = <<>> THEN << <<>> >>
  ELSE LET r == Split(Tail(t))
       IN  IF t[1] = "_" THEN << <<>> >> \o r
           ELSE << <<t[1]>> \o r[1] >> \o Tail(r)

NonEmpty(x) == StrLen(x) > 0

\* mutant: the datatype taken from the first four bytes of the tag as well
extract_id_and_datatype_same(n) ==
  LET parts == SelectSeq(Split(n), NonEmpty)
  IN  IF Len(parts) < 2 THEN Panic
      ELSE LET tag == parts[2]
               len == StrLen(tag)
           IN  IF len < 4 \/ ~IsCharBoundary(tag, 4) THEN Panic
               ELSE [kind |-> "Ok",
                     prop_id |-> <<"0", "x">>
                                   \o SubSeq(tag, 1, CharsBefore(tag, 4)),
                     prop_datatype |-> <<"0", "x">>
                                   \o SubSeq(tag, 1, CharsBefore(tag, 4))]

\* (prop_id, prop_datatype), or Panic where an index or a slice is out of
\* range or off a character boundary
extract_id_and_datatype(n) ==
  LET parts == SelectSeq(Split(n), NonEmpty)
  IN  IF Len(parts) < 2 THEN Panic
      ELSE LET tag == parts[2]
               len == StrLen(tag)
           IN  IF len < 4 \/ ~IsCharBoundary(tag, 4) THEN Panic
               ELSE IF ~IsCharBoundary(tag, len - 4) THEN Panic
               ELSE [kind |-> "Ok",
                     prop_id |-> <<"0", "x">>
                                   \o SubSeq(tag, 1, CharsBefore(tag, 4)),
                     prop_datatype |-> <<"0", "x">>
                                   \o Drop(tag, CharsBefore(tag, len - 4))]

PropertiesName == <<"_", "_", "p", "r", "o", "p", "e", "r", "t", "i", "e", "s", "_", "v", "e", "r", "s", "i", "o", "n", "1", ".", "0">>

SubstgPrefix == <<"_", "_", "s", "u", "b", "s", "t", "g", "1", ".", "0">>

StartsWith(t, p) == Len(t) >= Len(p) /\ SubSeq(t, 1, Len(p)) = p

stream_type(n) ==
  IF n = PropertiesName THEN "PropertyStream"
  ELSE IF StartsWith(n, SubstgPrefix) THEN "SubStorage"
  ELSE "None"

\* PropIdNameMap::get_canonical_name: absent for an id the map does not hold
get_canonical_name(pm, id) ==
  IF id \in DOMAIN pm THEN [kind |-> "Some", name |-> pm[id]]
  ELSE [kind |-> "None"]

Some(st) == [kind |-> "Some", stream |-> st]

None == [kind |-> "None"]

Stream(par, key, value, type) ==
  [parent |-> par, key |-> key, value |-> value, _type |-> type]

\* the Option<Stream> (or Panic) built from a decode outcome
stream_of(dec, par, key, type) ==
  IF dec.res.kind = "Panic" THEN [res |-> Panic, slice |-> dec.slice]
  ELSE IF dec.res.kind = "Err" THEN [res |-> None, slice |-> dec.slice]
  ELSE [res |-> Some(Stream(par, key, dec.res.value, type)),
        slice |-> dec.slice]

\* mutant: the value decoded before the property id is looked up
create_substorage_decode_first(n, s, pm, par, checked) ==
  LET ex == extract_id_and_datatype(n)
  IN  IF ex.kind = "Panic" THEN [res |-> Panic, slice |-> s]
      ELSE LET dec == PtypDecoder_decode(s, ex.prop_datatype, checked)
               key == get_canonical_name(pm, ex.prop_id)
           IN  IF dec.res.kind = "Panic" THEN [res |-> Panic, slice |-> dec.slice]
               ELSE IF key.kind = "None" THEN [res |-> None, slice |-> dec.slice]
               ELSE stream_of(dec, par, key.name, "SubStorage")

create_substorage(n, s, pm, par, checked) ==
  LET ex == extract_id_and_datatype(n)
  IN  IF ex.kind = "Panic" THEN [res |-> Panic, slice |-> s]
      ELSE LET key == get_canonical_name(pm, ex.prop_id)
           IN  IF key.kind = "None" THEN [res |-> None, slice |-> s]
               ELSE stream_of(PtypDecoder_decode(s, ex.prop_datatype, checked),
                              par, key.name, "SubStorage")

create_propertystream(n, s, par, checked) ==
  stream_of(PtypDecoder_decode(s, TagBinary, checked),
            par, n, "PropertyStream")

\* Stream::create: the outcome and the entry slice after the call
create(n, s, pm, par, checked) ==
  LET t == stream_type(n)
  IN  IF t = "SubStorage" THEN create_substorage(n, s, pm, par, checked)
      ELSE IF t = "PropertyStream"
           THEN create_propertystream(n, s, par, checked)
      ELSE [res |-> None, slice |-> s]

(***************************************************************************)
(* lib.rs: jsonFromUint8Array, over the object assembler.                  *)
(***************************************************************************)
RECURSIVE process_streams(_, _, _)
\* Stream::create on every stream entry, in order; Panic if one panics
process_streams(entries, pm, checked) ==
  IF entries = <<>> THEN [kind |-> "Ok", streams |-> <<>>]
  ELSE LET e == entries[1]
           c == create(e.name, EntrySlice(e.bytes), pm, e.parent, checked)
       IN  IF c.res.kind = "Panic" THEN Panic
           ELSE LET rest == process_streams(Tail(entries), pm, checked)
                IN  IF rest.kind = "Panic" THEN Panic
                    ELSE [kind |-> "Ok",
                          streams |-> (IF c.res.kind = "Some"
                                       THEN <<c.res.stream>> ELSE <<>>)
                                      \o rest.streams]

\* Outlook::from_slice: Err for a malformed container
Outlook_from_slice(c, pm, checked) ==
  IF ~c.valid THEN [kind |-> "Err"]
  ELSE process_streams(c.entries, pm, checked)

\* Outlook::to_json
to_json(outlook) == [kind |-> "Ok", streams |-> outlook.streams]

\* the document returned on a parse failure
FallbackDocument == [kind |-> "Returned", error |-> TRUE, streams |-> <<>>]

jsonFromUint8Array(c, pm, checked) ==
  LET parsed == Outlook_from_slice(c, pm, checked)
  IN  IF parsed.kind = "Panic" THEN [kind |-> "Abort"]
      ELSE IF parsed.kind = "Err" THEN FallbackDocument
      ELSE LET js == to_json(parsed)
           IN  IF js.kind = "Ok"
               THEN [kind |-> "Returned", error |-> FALSE,
                     streams |-> js.streams]
               ELSE [kind |-> "Abort"]

(***************************************************************************)
(* The inputs the operations are exercised on.                             *)
(***************************************************************************)
\* byte values: zero, an ASCII letter, the high bytes of a high and of a
\* low surrogate
ByteVals == {0, 65, 216, 220}

Buffers == SeqsUpTo(ByteVals, MaxBuffLen)

\* FILETIME values, low two bytes varied over high six bytes near 1601,
\* 1970, 2020 and the top of the u64 range
TimeLowVals == {0, 15, 39, 167, 248, 255}

TimeHighs == {<<0, 0, 0, 0, 0, 0>>,
              <<62, 213, 222, 177, 157, 1>>,
              <<98, 183, 62, 222, 214, 1>>,
              <<255, 255, 255, 255, 255, 255>>}

TimeSamples == {<<a, b>> \o h : a \in TimeLowVals, b \in TimeLowVals,
                                h \in TimeHighs}

\* entry contents for Stream::create
EntryVals == {0, 65, 216}

EntryBuffers == SeqsUpTo(EntryVals, MaxEntryLen)
                  \cup {<<a, b>> \o h : a \in {15, 255}, b \in {39, 167},
                                        h \in TimeHighs}
                  \cup {<<65, 0, 0, 65, 65, 0>>, <<65, 216, 65, 220>>}

\* type tags handed to PtypDecoder directly
Codes == {TagString, TagString8, TagBinary, TagTime,
          <<"1", "2", "3", "4">>, <<"0", "x", "0", "0", "1", "f">>,
          <<"0", "x", "0", "0", "0", "D">>, <<>>}

\* property ids and type codes as they appear in stream names
IdDigits == {<<"0", "C", "1", "F">>, <<"3", "0", "0", "1">>, <<"3", "0", "0", "7">>, <<"F", "F", "F", "F">>}

TypeDigits == {<<"0", "0", "1", "F">>, <<"0", "0", "1", "E">>, <<"0", "1", "0", "2">>, <<"0", "0", "4", "0">>, <<"0", "0", "0", "D">>, <<"0", "0", "1", "f">>}

SuffixChars == {"_", "1", TwoByteChar}

OtherNames == {<<>>,
               <<"R", "o", "o", "t", " ", "E", "n", "t", "r", "y">>,
               <<"_", "_", "r", "e", "c", "i", "p", "_", "v", "e", "r", "s", "i", "o", "n", "1", ".", "0", "_", "#", "0", "0", "0", "0", "0", "0", "0", "0">>,
               <<"_", "_", "n", "a", "m", "e", "i", "d", "_", "v", "e", "r", "s", "i", "o", "n", "1", ".", "0">>,
               PropertiesName \o <<"_">>,
               SubSeq(PropertiesName, 1, Len(PropertiesName) - 1)}

Names ==
  {PropertiesName} \cup OtherNames
    \cup {SubstgPrefix \o <<"_">> \o i \o t : i \in IdDigits, t \in TypeDigits}
    \cup {SubstgPrefix \o <<"_">> \o i \o <<"0">> \o t :
            i \in {<<"0", "C", "1", "F">>}, t \in TypeDigits}
    \cup {SubstgPrefix \o <<"_">> \o i \o <<"_">> \o t :
            i \in {<<"3", "0", "0", "1">>}, t \in TypeDigits}
    \cup {SubstgPrefix \o x : x \in SeqsUpTo(SuffixChars, MaxSuffixLen)}

\* PropIdNameMap values: the built-in table (three of its rows), and a
\* table that knows one id only
PropMapFull ==
  (<<"0", "x", "0", "C", "1", "F">> :> <<"S", "e", "n", "d", "e", "r", "E", "m", "a", "i", "l", "A", "d", "d", "r", "e", "s", "s">>)
    @@ (<<"0", "x", "3", "0", "0", "1">> :> <<"D", "i", "s", "p", "l", "a", "y", "N", "a", "m", "e">>)
    @@ (<<"0", "x", "3", "0", "0", "7">> :> <<"C", "r", "e", "a", "t", "i", "o", "n", "T", "i", "m", "e">>)

PropMapSmall == (<<"0", "x", "3", "0", "0", "1">> :> <<"D", "i", "s", "p", "l", "a", "y", "N", "a", "m", "e">>)

PropMaps == {PropMapFull, PropMapSmall}

\* StorageType values
Parents == {<<"RootEntry">>, <<"Recipient", 1>>}

\* stream entries of a container
ContainerEntries ==
  {[name |-> n, bytes |-> b, parent |-> par] :
     n \in {PropertiesName,
            SubstgPrefix \o <<"_", "0", "C", "1", "F", "0", "0", "1", "F">>,
            SubstgPrefix \o <<"_", "3", "0", "0", "7", "0", "0", "4", "0">>,
            SubstgPrefix \o <<"_", "F", "F", "F", "F", "0", "1", "0", "2">>,
            SubstgPrefix,
            <<"_", "_", "n", "a", "m", "e", "i", "d", "_", "v", "e", "r", "s", "i", "o", "n", "1", ".", "0">>},
     b \in {<<65, 0>>, <<0, 98, 183, 62, 222, 214, 1, 0>>},
     par \in {<<"RootEntry">>}}

Containers ==
  {[valid |-> v, entries |-> e] :
     v \in BOOLEAN, e \in SeqsUpTo(ContainerEntries, MaxEntries)}

(***************************************************************************)
(* The state machine.  A behaviour is one call of one operation: the       *)
(* initial state holds the operation and its arguments (and the build's    *)
(* overflow-check setting), the step performs the call and stores its      *)
(* outcome.                                                                *)
(***************************************************************************)
NoMap == <<>>

NoContainer == [valid |-> FALSE, entries |-> <<>>]

Pending == [kind |-> "Pending"]

InitDecode(o) ==
  /\ op = o
  /\ entry \in Buffers \cup TimeSamples
  /\ code \in Codes
  /\ name = <<>>
  /\ prop_map = NoMap
  /\ parent = <<"RootEntry">>
  /\ container = NoContainer

InitCreate ==
  /\ op = "create"
  /\ name \in Names
  /\ entry \in EntryBuffers
  /\ prop_map \in PropMaps
  /\ parent \in Parents
  /\ code = <<>>
  /\ container = NoContainer

InitJson ==
  /\ op = "json"
  /\ container \in Containers
  /\ prop_map = PropMapFull
  /\ name = <<>>
  /\ entry = <<>>
  /\ code = <<>>
  /\ parent = <<"RootEntry">>

InitCommon ==
  /\ pc = "call"
  /\ overflow_checks \in BOOLEAN
  /\ slice = EntrySlice(entry)
  /\ result = Pending

Init ==
  /\ \/ InitDecode("decode")
     \/ InitDecode("decode_vec")
     \/ InitCreate
     \/ InitJson
  /\ InitCommon

\* PtypDecoder::decode(entry_slice, code)
Decode ==
  /\ pc = "call" /\ op = "decode"
  /\ LET d == PtypDecoder_decode(slice, code, overflow_checks)
     IN  /\ slice' = d.slice
         /\ result' = d.res
  /\ pc' = "done"
  /\ UNCHANGED <<op, name, entry, code, prop_map, parent, container,
                 overflow_checks>>

\* PtypDecoder::decode_vec(buff, code)
DecodeVec ==
  /\ pc = "call" /\ op = "decode_vec"
  /\ result' = PtypDecoder_decode_vec(entry, code, overflow_checks)
  /\ pc' = "done"
  /\ UNCHANGED <<op, name, entry, code, prop_map, parent, container,
                 overflow_checks, slice>>

\* Stream::create(name, entry_slice, prop_map, parent)
Create ==
  /\ pc = "call" /\ op = "create"
  /\ LET c == create(name, slice, prop_map, parent, overflow_checks)
     IN  /\ slice' = c.slice
         /\ result' = c.res
  /\ pc' = "done"
  /\ UNCHANGED <<op, name, entry, code, prop_map, parent, container,
                 overflow_checks>>

\* jsonFromUint8Array(slice)
Json ==
  /\ pc = "call" /\ op = "json"
  /\ result' = jsonFromUint8Array(container, prop_map, overflow_checks)
  /\ pc' = "done"
  /\ UNCHANGED <<op, name, entry, code, prop_map, parent, container,
                 overflow_checks, slice>>

Next == Decode \/ DecodeVec \/ Create \/ Json

Spec == Init /\ [][Next]_vars

\* the calls of PtypDecoder
InitDecoder ==
  /\ InitDecode("decode") \/ InitDecode("decode_vec")
  /\ InitCommon

NextDecoder == Decode \/ DecodeVec

SpecDecoder == InitDecoder /\ [][NextDecoder]_vars

\* the calls of Stream::create
InitStream == InitCreate /\ InitCommon

NextStream == Create

SpecStream == InitStream /\ [][NextStream]_vars

\* the calls of jsonFromUint8Array
InitEntryPoint == InitJson /\ InitCommon

NextEntryPoint == Json

SpecEntryPoint == InitEntryPoint /\ [][NextEntryPoint]_vars

(***************************************************************************)
(* Properties.                                                             *)
(***************************************************************************)
Done(o) == pc = "done" /\ op = o

Decoded == Done("decode") \/ Done("decode_vec")

HexChars == {"0", "1", "2", "3", "4", "5", "6", "7", "8", "9",
             "A", "B", "C", "D", "E", "F", "a", "b", "c", "d", "e", "f"}

\* "__substg1.0_" followed by exactly eight hex digits
IsSubstgName(n) ==
  /\ Len(n) = Len(SubstgPrefix) + 9
  /\ SubSeq(n, 1, Len(SubstgPrefix) + 1) = SubstgPrefix \o <<"_">>
  /\ \A i \in (Len(SubstgPrefix) + 2)..Len(n) : n[i] \in HexChars

\* "0x" and the first four digits of the tag of a "__substg1.0_" name
NameId(n) ==
  <<"0", "x">> \o SubSeq(n, Len(SubstgPrefix) + 2, Len(SubstgPrefix) + 5)

\* "0x" and the last four digits of the tag of a "__substg1.0_" name
NameType(n) ==
  <<"0", "x">> \o SubSeq(n, Len(SubstgPrefix) + 6, Len(SubstgPrefix) + 9)

RecognizedTags == {TagString, TagString8, TagBinary, TagTime}

\* C1: a name that is neither "__properties_version1.0" nor "__substg1.0_"
\* plus eight hex digits makes Stream::create return None, whatever the
\* entry bytes, the property map and the parent are
C1_OtherNameYieldsNone ==
  (Done("create") /\ name # PropertiesName /\ ~IsSubstgName(name))
    => result.kind = "None"

\* a decode failure as C2 lists them: an unrecognized type code, an
\* invalid surrogate sequence, a Time value shorter than 8 bytes
DecodeFails(bytes, tag) ==
  \/ tag \notin RecognizedTags
  \/ tag = TagString /\ from_utf16(ptypstring_units(bytes)) = <<-1>>
  \/ tag = TagTime /\ Len(bytes) < 8

\* C2: for a "__substg1.0_" name with a known property id, a decode failure
\* makes Stream::create return None rather than an error or an abort
C2_DecodeFailureYieldsNone ==
  (/\ Done("create")
   /\ IsSubstgName(name)
   /\ NameId(name) \in DOMAIN prop_map
   /\ DecodeFails(entry, NameType(name)))
    => result.kind = "None"

\* C3: for a "__substg1.0_" name whose property id is not in the map,
\* Stream::create returns None and has not read the entry slice
C3_UnknownIdSkipsDecoder ==
  (Done("create") /\ IsSubstgName(name) /\ NameId(name) \notin DOMAIN prop_map)
    => /\ result.kind = "None"
       /\ slice = EntrySlice(entry)
       /\ EntrySlice_len(slice) = Len(entry)

\* an unknown id with a Time tag on a short entry, which the decoder would
\* not survive
C3_Witness ==
  /\ Done("create")
  /\ IsSubstgName(name)
  /\ NameId(name) \notin DOMAIN prop_map
  /\ NameType(name) = TagTime
  /\ Len(entry) = 2
  /\ result.kind = "None"

\* C4: decode and decode_vec answer a tag other than the four recognized
\* ones with UnknownCode carrying that tag, whatever the bytes are
C4_UnknownCode ==
  (Decoded /\ code \notin RecognizedTags)
    => /\ result.kind = "Err"
       /\ result.err = "UnknownCode"
       /\ result.code = code

C4_Witness ==
  /\ Done("decode")
  /\ code = <<"1", "2", "3", "4">>
  /\ Len(entry) = 8
  /\ result.kind = "Err"
  /\ result.code = <<"1", "2", "3", "4">>

\* the 16-bit little-endian code units of the bytes, an odd trailing byte
\* paired with a zero high byte
CodeUnits(bytes) ==
  [i \in 1..((Len(bytes) + 1) \div 2) |->
     bytes[2 * i - 1] + 256 * (IF 2 * i <= Len(bytes) THEN bytes[2 * i] ELSE 0)]

\* the code units before the first one that is zero
UnitsBeforeZero(u) ==
  IF \E i \in 1..Len(u) : u[i] = 0
  THEN SubSeq(u, 1, (CHOOSE i \in 1..Len(u) :
                       u[i] = 0 /\ \A j \in 1..(i - 1) : u[j] # 0) - 1)
  ELSE u

\* C5: String decoding yields the text of the code units before the first
\* zero code unit (both bytes zero), or of all of them when there is none
C5_StringStopsAtZeroUnit ==
  (Decoded /\ code = TagString)
    => LET text == from_utf16(UnitsBeforeZero(CodeUnits(entry)))
       IN  IF text = <<-1>> THEN result.kind = "Err"
           ELSE result.kind = "Ok" /\ result.value = PtypString(text)

\* the decimal text of floor(v / 10000) - 11644473599996 for the u64 v in
\* the first eight bytes, with a minus sign where it is negative
ExactTimeText(bytes) ==
  LET q == Norm(DivRem(u64_from_le_bytes(SubSeq(bytes, 1, 8)), 10000).q)
  IN  IF BitLess(q, EpochDiff)
      THEN <<45>> \o u64_to_string(WrappingSub(EpochDiff, q, 64))
      ELSE u64_to_string(WrappingSub(q, EpochDiff, 64))

\* C6: Time decoding of at least 8 bytes returns the decimal text of
\* floor(v / 10000) - 11644473599996 exactly, for every u64 value v
C6_TimeExact ==
  (Decoded /\ code = TagTime /\ Len(entry) >= 8)
    => /\ result.kind = "Ok"
       /\ result.value = PtypTime(ExactTimeText(entry))

\* C7: jsonFromUint8Array always returns a document, and the fixed
\* fallback document whenever the parse fails
C7_AlwaysADocument ==
  Done("json")
    => /\ result.kind = "Returned"
       /\ (~container.valid => result = FallbackDocument)

\* C8: for a "__substg1.0_" name with a known id and a recognized type
\* code, on content that decodes, Stream::create returns the SubStorage
\* stream of the given parent, keyed by the canonical name of the id, whose
\* value is the decoding of the entry's full bytes under the type code
C8_SubStorageStream ==
  (/\ Done("create")
   /\ IsSubstgName(name)
   /\ NameId(name) \in DOMAIN prop_map
   /\ NameType(name) \in RecognizedTags
   /\ PtypDecoder_decode_vec(entry, NameType(name), overflow_checks).kind = "Ok")
    => /\ result.kind = "Some"
       /\ result.stream =
            Stream(parent, prop_map[NameId(name)],
                   PtypDecoder_decode_vec(entry, NameType(name),
                                          overflow_checks).value,
                   "SubStorage")

C8_Witness ==
  /\ Done("create")
  /\ name = SubstgPrefix \o <<"_", "0", "C", "1", "F", "0", "0", "1", "F">>
  /\ entry = <<65, 0, 0, 65, 65, 0>>
  /\ parent = <<"Recipient", 1>>
  /\ result.kind = "Some"
  /\ result.stream.key = PropMapFull[<<"0", "x", "0", "C", "1", "F">>]
  /\ result.stream.value = PtypString(<<65>>)

\* C9: for the name "__properties_version1.0", Stream::create returns the
\* PropertyStream stream of the given parent, keyed by the name itself,
\* whose value is the entry's bytes unchanged, whatever the property map
C9_PropertyStream ==
  (Done("create") /\ name = PropertiesName)
    => /\ result.kind = "Some"
       /\ result.stream =
            Stream(parent, PropertiesName, PtypBinary(entry), "PropertyStream")

C9_Witness ==
  /\ Done("create")
  /\ name = PropertiesName
  /\ entry = <<65, 0>>
  /\ prop_map = PropMapSmall
  /\ result.kind = "Some"
  /\ result.stream.value.val = <<65, 0>>

\* the number of bytes before the first zero byte
BytesBeforeZero(bytes) ==
  IF \E i \in 1..Len(bytes) : bytes[i] = 0
  THEN (CHOOSE i \in 1..Len(bytes) :
          bytes[i] = 0 /\ \A j \in 1..(i - 1) : bytes[j] # 0) - 1
  ELSE Len(bytes)

====
